---- MODULE Spec2Model ----
(***************************************************************************)
(* Document cache and retrieval engine of lllm-rag-mlx.                    *)
(*                                                                         *)
(* src/src/rag_system.py : DocumentStore (SQLite tables documents and      *)
(*                         embeddings), RAGSystem (chunk table             *)
(*                         self.documents, FAISS index self.index), main   *)
(* src/src/docwhisperar.py : the desktop process: RAGSystemWorker.run      *)
(*                         (startup), DocWhispererApp.process_documents    *)
(*                         (ingest on the UI thread), QueryWorker.run      *)
(*                         (query on a worker thread)                      *)
(*                                                                         *)
(* The file system, the SQLite file and the process are modelled           *)
(* explicitly.  A process can be killed at any step; what survives is the  *)
(* file system and the committed content of the two tables.                *)
(***************************************************************************)
EXTENDS Integers, Sequences, FiniteSets, TLC

\* ------------------------------------------------------------------ bounds
\* Number of documents rows ever inserted (the AUTOINCREMENT id of documents).
MaxDocs == 3
\* Longest list of files one Add Documents dialog hands over.
MaxBatch == 2
\* chunk_size of add_documents; the source default is 512, scaled to the
\* short texts of the model.
ChunkSize == 4
\* Width of an embedding vector; 384 in the source, scaled.
Dimension == 2
\* Most QueryWorker objects the model lets run at once.
MaxWorkers == 2
\* ------------------------------------------------------ program constants
\* k of generate_response / retrieve.
K == 3

\* ---------------------------------------------------------------- helpers
Range(s) ==
    {s[i] : i \in 1..Len(s)}

Min(a, b) ==
    IF a <= b THEN a ELSE b

RECURSIVE Concat(_)
\* s1 \o s2 \o ... for a sequence of sequences (list.extend over a loop).
Concat(ss) ==
    IF ss = <<>> THEN <<>> ELSE Head(ss) \o Concat(Tail(ss))

\* Sequences over S without repetition, of length 1..n.
DistinctSeqs(S, n) ==
    {s \in UNION {[1..m -> S] : m \in 1..n} :
        \A i, j \in 1..Len(s) : i # j => s[i] # s[j]}

\* ------------------------------------------------------------------ paths
\* A path is its sequence of segments below the working directory.
PathA == <<"d", "a.pdf">>
PathADot == <<"d", ".", "a.pdf">>
PathB == <<"d", "b.pdf">>

\* os.path.normpath(os.path.abspath(p)): "." segments are dropped.
Normalize(p) ==
    SelectSeq(p, LAMBDA seg : seg # ".")

\* The paths a file dialog or a caller can hand over.
RawPaths ==
    {PathA, PathADot, PathB}

\* The files of the folder, by normalized path.
Files ==
    {Normalize(p) : p \in RawPaths}

\* The file that is rewritten and removed while the program runs; the
\* other one keeps its content.
Edited ==
    {PathA}

\* --------------------------------------------------------------- contents
\* A file holds content 0 (the file does not exist) or one of these.
Contents ==
    {1, 2}

\* The text PdfReader extracts, as tokens: a word, or " " for a run of
\* whitespace.
PdfText(c) ==
    CASE c = 1 -> <<"aaa", " ", "bb", " ", "c", " ", "dd", " ">>
      [] c = 2 -> <<"ee", " ", "ff", " ", "g">>
      [] OTHER -> <<" ", " ">>

IsSpace(tok) ==
    tok = " "

RECURSIVE LStrip(_)
LStrip(text) ==
    IF text # <<>> /\ IsSpace(Head(text)) THEN LStrip(Tail(text)) ELSE text

RECURSIVE RStrip(_)
RStrip(text) ==
    IF text # <<>> /\ IsSpace(text[Len(text)])
    THEN RStrip(SubSeq(text, 1, Len(text) - 1))
    ELSE text

\* str.strip()
Strip(text) ==
    RStrip(LStrip(text))

\* str.split(): the words, whitespace dropped.
Words(text) ==
    SelectSeq(text, LAMBDA tok : ~IsSpace(tok))

RECURSIVE Join(_)
\* ' '.join(words)
Join(ws) ==
    IF ws = <<>> THEN ""
    ELSE IF Len(ws) = 1 THEN ws[1]
    ELSE ws[1] \o " " \o Join(Tail(ws))

RECURSIVE ChunkLoopNoFlush(_, _, _, _, _)
\* Mutant of ChunkLoop: the words left in current_chunk after the loop are
\* not made a chunk.
ChunkLoopNoFlush(words, current_chunk, current_length, chunks, chunk_size) ==
    IF words = <<>>
    THEN chunks
    ELSE LET cc == Append(current_chunk, Head(words))
             cl == current_length + Len(Head(words)) + 1
         IN  IF cl >= chunk_size
             THEN ChunkLoopNoFlush(Tail(words), <<>>, 0, Append(chunks, Join(cc)), chunk_size)
             ELSE ChunkLoopNoFlush(Tail(words), cc, cl, chunks, chunk_size)

RECURSIVE ChunkLoopStrict(_, _, _, _, _)
\* Mutant of ChunkLoop: a chunk is closed once current_length exceeds
\* chunk_size.
ChunkLoopStrict(words, current_chunk, current_length, chunks, chunk_size) ==
    IF words = <<>>
    THEN IF current_chunk # <<>> THEN Append(chunks, Join(current_chunk)) ELSE chunks
    ELSE LET cc == Append(current_chunk, Head(words))
             cl == current_length + Len(Head(words)) + 1
         IN  IF cl > chunk_size
             THEN ChunkLoopStrict(Tail(words), <<>>, 0, Append(chunks, Join(cc)), chunk_size)
             ELSE ChunkLoopStrict(Tail(words), cc, cl, chunks, chunk_size)

RECURSIVE ChunkLoop(_, _, _, _, _)
\* The for-loop of add_documents over words, with its three locals, and the
\* flush of the last partial chunk after it.
ChunkLoop(words, current_chunk, current_length, chunks, chunk_size) ==
    IF words = <<>>
    THEN IF current_chunk # <<>> THEN Append(chunks, Join(current_chunk)) ELSE chunks
    ELSE LET cc == Append(current_chunk, Head(words))
             cl == current_length + Len(Head(words)) + 1
         IN  IF cl >= chunk_size
             THEN ChunkLoop(Tail(words), <<>>, 0, Append(chunks, Join(cc)), chunk_size)
             ELSE ChunkLoop(Tail(words), cc, cl, chunks, chunk_size)

\* The chunker of add_documents.
Split(text, chunk_size) ==
    ChunkLoop(Words(text), <<>>, 0, <<>>, chunk_size)

\* sha256 over the bytes of the file: distinct contents, distinct digests.
FileHash(c) ==
    (c * 3) % 7

\* SentenceTransformer.encode of one text: a vector of Dimension numbers
\* below 16 that depends on the text only.
EncodeOne(s) ==
    [i \in 1..Dimension |-> (Len(s) * i + i) % 16]

\* encoder.encode(chunks): one row per chunk, in order.
Encode(chunks) ==
    [i \in 1..Len(chunks) |-> EncodeOne(chunks[i])]

\* encoder.encode(chunks) of an encoder whose vectors have w components.
EncodeWith(chunks, w) ==
    [i \in 1..Len(chunks) |-> [j \in 1..w |-> (Len(chunks[i]) * j + j) % 16]]

\* ndarray.tobytes(): two little-endian digits per component.
ToBytes(v) ==
    [i \in 1..(2 * Len(v)) |->
        IF i % 2 = 1 THEN v[(i + 1) \div 2] % 4 ELSE v[i \div 2] \div 4]

\* np.frombuffer(bytes, dtype=float32)
FromBuffer(b) ==
    [i \in 1..(Len(b) \div 2) |-> b[2 * i - 1] + 4 * b[2 * i]]

\* ------------------------------------------------------------------ state
VARIABLES
    fs,             \* file system: normalized path -> content, 0 when absent
    tblDocuments,   \* table documents, rows in rowid order
    tblEmbeddings,  \* table embeddings, rows in rowid order
    seqDocuments,   \* sqlite_sequence of documents (AUTOINCREMENT)
    seqEmbeddings,  \* sqlite_sequence of embeddings (AUTOINCREMENT)
    proc,           \* "down", "gui" (docwhisperar.py) or "cli" (rag_system.main)
    documents,      \* RAGSystem.documents, the chunk table
    index,          \* RAGSystem.index, the rows of the FAISS index
    ipc,            \* position of the thread that runs add_documents
    batch,          \* the documents argument of add_documents: (path, text) pairs
    bi,             \* position of the for-loop of add_documents in batch
    chunk_size,     \* the chunk_size argument of add_documents
    txn,            \* the transaction store_document has open on its connection
    encodes,        \* history: the calls of encoder.encode the running
                    \*   add_documents has made
    qpc,            \* position of the query
    qtext,          \* the query text
    qk,             \* the k argument of retrieve
    qidx,           \* indices[0] as index.search returned it
    qdocs,          \* the list of chunk texts retrieve returned
    qout,           \* outcome of the query: "none", "finished", or the error
    qencodes,       \* history: the calls of encoder.encode the running query
                    \*   has made
    submit_enabled, \* QueryWindow.submit_button.isEnabled()
    workers,        \* the QueryWorker objects whose run() has not emitted yet
    width,          \* the width of the vectors self.encoder returns
    call,           \* a direct call of is_document_processed: its argument,
                    \*   the failure it meets and what it returned
    pre,            \* history: the two tables when add_documents reached the
                    \*   file it is at
    ingested        \* history: the store_document calls whose rows are in the
                    \*   store, oldest first; complete once store_embeddings
                    \*   has returned

storeVars ==
    <<tblDocuments, tblEmbeddings, seqDocuments, seqEmbeddings>>

engineVars ==
    <<documents, index>>

ingestVars ==
    <<ipc, batch, bi, chunk_size, txn, encodes>>

queryVars ==
    <<qpc, qtext, qk, qidx, qdocs, qout, qencodes, submit_enabled, workers>>

historyVars ==
    <<pre, ingested>>

vars ==
    <<fs, tblDocuments, tblEmbeddings, seqDocuments, seqEmbeddings, proc,
      documents, index, ipc, batch, bi, chunk_size, txn, encodes, qpc, qtext, qk,
      qidx, qdocs, qout, qencodes, submit_enabled, workers, width, call, pre,
      ingested>>

\* ----------------------------------------------------------- DocumentStore
\* SELECT ... FROM documents WHERE file_path = ?  (rows in rowid order)
DocRowsOf(docs, file_path) ==
    SelectSeq(docs, LAMBDA d : d.file_path = file_path)

\* Mutant of IsDocumentProcessed: a row for the path is enough, the digests
\* are not compared.
IsDocumentProcessedAnyRow(docs, files, path) ==
    /\ files[Normalize(path)] # 0
    /\ DocRowsOf(docs, Normalize(path)) # <<>>

\* DocumentStore.is_document_processed, without a failing lookup: false for
\* a missing file, false without a row, else the comparison of the digests
\* with the row fetchone() returns (the first one).
IsDocumentProcessed(docs, files, path) ==
    LET file_path == Normalize(path)
        result == DocRowsOf(docs, file_path)
    IN  IF files[file_path] = 0 THEN FALSE
        ELSE IF result # <<>> THEN FileHash(files[file_path]) = result[1].file_hash
        ELSE FALSE

\* What can fail in is_document_processed for a file that exists: reading
\* the file (get_file_hash, getmtime) and the lookup in the store.
Faults ==
    {"none", "read", "lookup"}

\* The try block of DocumentStore.is_document_processed: it returns, or an
\* exception leaves it.
IsDocumentProcessedTry(docs, files, path, fault) ==
    IF files[Normalize(path)] = 0 THEN [raised |-> FALSE, value |-> FALSE]
    ELSE IF fault # "none" THEN [raised |-> TRUE, value |-> FALSE]
    ELSE [raised |-> FALSE, value |-> IsDocumentProcessed(docs, files, path)]

\* Mutant of IsDocumentProcessedCall: no except clause.
IsDocumentProcessedNoExcept(docs, files, path, fault) ==
    IsDocumentProcessedTry(docs, files, path, fault)

\* DocumentStore.is_document_processed as a caller sees it: the try block
\* and `except Exception: return False`.
IsDocumentProcessedCall(docs, files, path, fault) ==
    LET got == IsDocumentProcessedTry(docs, files, path, fault)
    IN  IF got.raised THEN [raised |-> FALSE, value |-> FALSE] ELSE got

\* No transaction is open.
NoTxn ==
    [open |-> FALSE]

\* store_document up to its first statement: the normalized path, the content
\* get_file_hash reads, and the transaction of the connection, which starts
\* from the committed tables.
Begin(docs, embs, seq, files, path) ==
    [open |-> TRUE, docs |-> docs, embs |-> embs, seq |-> seq,
     file_path |-> Normalize(path), hashed |-> files[Normalize(path)]]

\* Mutant of DeleteEmbeddings: the embeddings rows of the old documents row
\* are left in the table.
DeleteEmbeddingsSkipped(t) ==
    t

\* DELETE FROM embeddings WHERE document_id IN (SELECT id FROM documents
\* WHERE file_path = ?), in the transaction t.
DeleteEmbeddings(t) ==
    LET gone == {d.id : d \in Range(DocRowsOf(t.docs, t.file_path))}
    IN  [t EXCEPT !.embs = SelectSeq(t.embs, LAMBDA e : e.document_id \notin gone)]

\* Mutant of DeleteDocuments: the DELETE has no WHERE clause.
DeleteDocumentsAll(t) ==
    [t EXCEPT !.docs = <<>>]

\* DELETE FROM documents WHERE file_path = ?, in the transaction t.
DeleteDocuments(t) ==
    [t EXCEPT !.docs = SelectSeq(t.docs, LAMBDA d : d.file_path # t.file_path)]

\* INSERT INTO documents (...), in the transaction t.
InsertDocument(t, chunks) ==
    [t EXCEPT !.docs = Append(t.docs, [id |-> t.seq + 1,
                                       file_path |-> t.file_path,
                                       file_hash |-> FileHash(t.hashed),
                                       chunks |-> chunks]),
              !.seq = t.seq + 1]

\* DocumentStore.store_document as a whole, when it returns: both DELETEs and
\* the INSERT, committed together.  file_hash is get_file_hash of the file
\* as it is when store_document runs.
StoreDocument(docs, embs, seq, files, path, chunks) ==
    LET t == InsertDocument(DeleteDocuments(DeleteEmbeddings(
                 Begin(docs, embs, seq, files, path))), chunks)
    IN  [docs |-> t.docs, embs |-> t.embs, seq |-> t.seq]

\* Mutant of Rollback: the connection is in autocommit mode, each statement
\* that ran is in the database file.
RollbackAutocommit(db, t) ==
    IF t.open THEN [docs |-> t.docs, embs |-> t.embs, seq |-> t.seq] ELSE db

\* The database file db once the `with sqlite3.connect` block is left by an
\* exception (conn.rollback()) or the process dies (SQLite rolls the journal
\* back on the next open): what the transaction t did is undone.
Rollback(db, t) ==
    db

\* The lookup of DocumentStore.store_embeddings: by the path as passed.
EmbeddingsDocRows(docs, path) ==
    DocRowsOf(docs, path)

\* The INSERTs of DocumentStore.store_embeddings, for the row fetchone()
\* returned: one embeddings row per (chunk_text, embedding) pair, in order.
StoreEmbeddings(embs, seq, doc_id, chunks, embeddings) ==
    [embs |-> embs \o [i \in 1..Len(chunks) |->
                          [id |-> seq + i,
                           document_id |-> doc_id,
                           embedding |-> ToBytes(embeddings[i]),
                           chunk_text |-> chunks[i]]],
     seq |-> seq + Len(chunks)]

\* Mutant of GetAllEmbeddings: the rows come newest first.
GetAllEmbeddingsNewestFirst(embs) ==
    [embeddings |-> [i \in 1..Len(embs) |-> FromBuffer(embs[Len(embs) + 1 - i].embedding)],
     chunks |-> [i \in 1..Len(embs) |-> embs[Len(embs) + 1 - i].chunk_text]]

\* DocumentStore.get_all_embeddings: SELECT embedding, chunk_text FROM
\* embeddings, a scan of the table in rowid order.
GetAllEmbeddings(embs) ==
    [embeddings |-> [i \in 1..Len(embs) |-> FromBuffer(embs[i].embedding)],
     chunks |-> [i \in 1..Len(embs) |-> embs[i].chunk_text]]

\* --------------------------------------------------------------- RAGSystem
\* RAGSystem._load_existing_embeddings on an engine (docs, idx).
LoadExistingEmbeddings(docs, idx, embs) ==
    LET got == GetAllEmbeddings(embs)
    IN  IF got.embeddings # <<>> /\ got.chunks # <<>>
        THEN [index |-> idx \o got.embeddings, documents |-> docs \o got.chunks]
        ELSE [index |-> idx, documents |-> docs]

\* RAGSystem.process_pdf: the stripped text, "" when the file cannot be read.
ProcessPdf(files, path) ==
    IF files[Normalize(path)] = 0 THEN <<>> ELSE Strip(PdfText(files[Normalize(path)]))

\* The (path, text) pairs DocWhispererApp.process_documents builds from the
\* selected files: those with a text.
RECURSIVE ProcessDocumentsList(_, _)
ProcessDocumentsList(files, file_paths) ==
    IF file_paths = <<>> THEN <<>>
    ELSE LET text == ProcessPdf(files, Head(file_paths))
             rest == ProcessDocumentsList(files, Tail(file_paths))
         IN  IF text # <<>> THEN <<[path |-> Head(file_paths), text |-> text]>> \o rest
             ELSE rest

\* The (path, text) pairs RAGSystem.load_pdfs_from_folder returns for the
\* files glob found: cached files are skipped, files without text too.
RECURSIVE LoadPdfsFromFolder(_, _, _)
LoadPdfsFromFolder(docs, files, pdf_files) ==
    IF pdf_files = <<>> THEN <<>>
    ELSE LET normalized_path == Normalize(Head(pdf_files))
             rest == LoadPdfsFromFolder(docs, files, Tail(pdf_files))
             text == ProcessPdf(files, normalized_path)
         IN  IF IsDocumentProcessed(docs, files, normalized_path) THEN rest
             ELSE IF text # <<>> THEN <<[path |-> normalized_path, text |-> text]>> \o rest
             ELSE rest

\* The locals of add_documents for the file the loop is at.
CurPath ==
    batch[bi].path

CurChunks ==
    Split(batch[bi].text, chunk_size)

CurEmbeddings ==
    EncodeWith(CurChunks, width)

\* Squared L2 distance of IndexFlatL2.
Dist(a, b) ==
    LET d[i \in 0..Len(a)] == IF i = 0 THEN 0 ELSE d[i - 1] + (a[i] - b[i]) * (a[i] - b[i])
    IN  d[Len(a)]

RECURSIVE NearestTiesLast(_, _, _, _)
\* Mutant of Nearest: among rows at the same distance the one added last
\* comes first.
NearestTiesLast(idx, q, cand, n) ==
    IF n = 0 THEN <<>>
    ELSE IF cand = {} THEN <<-1>> \o NearestTiesLast(idx, q, cand, n - 1)
    ELSE LET best == CHOOSE i \in cand :
                        \A j \in cand : Dist(idx[i], q) < Dist(idx[j], q)
                                        \/ (Dist(idx[i], q) = Dist(idx[j], q) /\ i >= j)
         IN  <<best>> \o NearestTiesLast(idx, q, cand \ {best}, n - 1)

RECURSIVE Nearest(_, _, _, _)
\* The n nearest rows among the rows of cand, closest first, the lower row
\* first among equals; -1 where the index has no row left.
Nearest(idx, q, cand, n) ==
    IF n = 0 THEN <<>>
    ELSE IF cand = {} THEN <<-1>> \o Nearest(idx, q, cand, n - 1)
    ELSE LET best == CHOOSE i \in cand :
                        \A j \in cand : Dist(idx[i], q) < Dist(idx[j], q)
                                        \/ (Dist(idx[i], q) = Dist(idx[j], q) /\ i <= j)
         IN  <<best>> \o Nearest(idx, q, cand \ {best}, n - 1)

\* index.search(query_embedding, n): the labels of the row, numbered from 1.
Search(idx, q, n) ==
    Nearest(idx, q, 1..Len(idx), n)

\* The query texts.
Queries ==
    {"g"}

NoTables ==
    [docs |-> <<>>, embs |-> <<>>]

\* Mutant of IndexAdd: the last row of a block of several is not added.
IndexAddShort(idx, rows) ==
    IF Len(rows) > 1 THEN idx \o SubSeq(rows, 1, Len(rows) - 1) ELSE idx \o rows

\* IndexFlatL2.add(rows): the rows are appended.
IndexAdd(idx, rows) ==
    idx \o rows

\* Mutant of Extend: the chunks are put in front of the list.
ExtendFront(docs, chunks) ==
    chunks \o docs

\* list.extend(chunks)
Extend(docs, chunks) ==
    docs \o chunks

\* The history of store_document calls, once the rows of path are replaced.
Superseded(log, file_path) ==
    SelectSeq(log, LAMBDA e : e.file # file_path)

PrevContent(log, file_path) ==
    LET old == SelectSeq(log, LAMBDA e : e.file = file_path /\ e.complete)
    IN  IF old = <<>> THEN 0 ELSE old[1].content

\* No direct call of is_document_processed.
NoCall ==
    [state |-> "none"]

\* ------------------------------------------------------------------- Init
NoIngest ==
    /\ ipc' = "idle"
    /\ batch' = <<>>
    /\ bi' = 0
    /\ chunk_size' = 0
    /\ txn' = NoTxn
    /\ encodes' = 0
    /\ pre' = NoTables

NoQuery ==
    /\ qpc' = "idle"
    /\ qtext' = ""
    /\ qk' = 0
    /\ qidx' = <<>>
    /\ qdocs' = <<>>
    /\ qout' = "none"
    /\ qencodes' = 0
    /\ submit_enabled' = TRUE
    /\ workers' = 0

Init ==
    /\ fs \in [Files -> {0} \cup Contents]
    /\ \A f \in Files \ Edited : fs[f] = 2
    /\ tblDocuments = <<>>
    /\ tblEmbeddings = <<>>
    /\ seqDocuments = 0
    /\ seqEmbeddings = 0
    /\ proc = "down"
    /\ documents = <<>>
    /\ index = <<>>
    /\ ipc = "idle"
    /\ batch = <<>>
    /\ bi = 0
    /\ chunk_size = 0
    /\ txn = NoTxn
    /\ encodes = 0
    /\ qpc = "idle"
    /\ qtext = ""
    /\ qk = 0
    /\ qidx = <<>>
    /\ qdocs = <<>>
    /\ qout = "none"
    /\ qencodes = 0
    /\ submit_enabled = TRUE
    /\ workers = 0
    /\ width = Dimension
    /\ call = NoCall
    /\ pre = NoTables
    /\ ingested = <<>>

\* The transaction of store_document, if one is open, ends without a commit.
Abort ==
    LET db == Rollback([docs |-> tblDocuments, embs |-> tblEmbeddings,
                        seq |-> seqDocuments], txn)
    IN  /\ tblDocuments' = db.docs
        /\ tblEmbeddings' = db.embs
        /\ seqDocuments' = db.seq
        /\ UNCHANGED seqEmbeddings

\* The process ends: its memory is gone.
ProcessGone ==
    /\ proc' = "down"
    /\ documents' = <<>>
    /\ index' = <<>>
    /\ NoIngest
    /\ NoQuery

\* ------------------------------------------------------------ environment
\* The user, or any program, rewrites or removes a file.
ModifyFile ==
    /\ UNCHANGED <<call, width>>
    /\ \E f \in Edited, c \in {0} \cup Contents :
        /\ c # fs[f]
        /\ fs' = [fs EXCEPT ![f] = c]
    /\ UNCHANGED <<storeVars, proc, engineVars, ingestVars, queryVars, historyVars>>

\* The process is killed or quits.  A transaction that was open is rolled
\* back by SQLite; the committed rows stay.
Kill ==
    /\ UNCHANGED <<call, width>>
    /\ proc # "down"
    /\ ProcessGone
    /\ Abort
    /\ UNCHANGED <<fs, ingested>>

\* ---------------------------------------------------------------- startup
\* RAGSystemWorker.run: RAGSystem(), _load_existing_document_cache(),
\* _load_existing_embeddings(), finished.emit.
StartGui ==
    /\ UNCHANGED <<call, width>>
    /\ proc = "down"
    /\ proc' = "gui"
    /\ LET loaded == LoadExistingEmbeddings(<<>>, <<>>, tblEmbeddings)
       IN  /\ documents' = loaded.documents
           /\ index' = loaded.index
    /\ UNCHANGED <<fs, storeVars, ingestVars, queryVars, historyVars>>

\* rag_system.main up to the call of add_documents: RAGSystem(),
\* _load_existing_document_cache(), the statement rag._load_existing_embeddings
\* (an attribute reference, not a call), load_pdfs_from_folder, which raises
\* ValueError when the folder holds no file (main prints it and returns).
StartCli ==
    /\ UNCHANGED <<call, width>>
    /\ proc = "down"
    /\ \E pdf_files \in DistinctSeqs(Files, Cardinality(Files)) :
        /\ Range(pdf_files) = {f \in Files : fs[f] # 0}
        /\ LET docs == LoadPdfsFromFolder(tblDocuments, fs, pdf_files)
           IN  /\ seqDocuments + Len(docs) <= MaxDocs
               /\ proc' = "cli"
               /\ batch' = docs
               /\ bi' = IF docs = <<>> THEN 0 ELSE 1
               /\ ipc' = IF docs = <<>> THEN "idle" ELSE "for"
               /\ chunk_size' = IF docs = <<>> THEN 0 ELSE ChunkSize
               /\ UNCHANGED <<txn, encodes>>
    /\ UNCHANGED <<fs, storeVars, engineVars, queryVars, historyVars>>

\* ----------------------------------------------------------------- ingest
\* DocWhispererApp.process_documents up to the call of add_documents, on the
\* UI thread: the texts of the selected files are extracted.
ProcessDocuments ==
    /\ UNCHANGED <<call, width>>
    /\ proc = "gui"
    /\ ipc = "idle"
    /\ \E file_paths \in DistinctSeqs(RawPaths, MaxBatch) :
        /\ \A i, j \in 1..Len(file_paths) :
              i # j => Normalize(file_paths[i]) # Normalize(file_paths[j])
        /\ seqDocuments + Len(file_paths) <= MaxDocs
        /\ LET docs == ProcessDocumentsList(fs, file_paths)
           IN  /\ docs # <<>>
               /\ batch' = docs
               /\ bi' = 1
               /\ ipc' = "for"
               /\ chunk_size' = ChunkSize
               /\ UNCHANGED <<txn, encodes>>
    /\ UNCHANGED <<fs, storeVars, proc, engineVars, queryVars, historyVars>>

\* An exception leaves add_documents: nothing in add_documents catches it.
Raise ==
    /\ ipc' = "raised"
    /\ txn' = NoTxn
    /\ UNCHANGED <<proc, engineVars, batch, bi, chunk_size, queryVars>>

\* The exception arrives at the caller.  process_documents shows "Error
\* processing documents" and returns; main prints "An error occurred" and
\* returns, which ends the process.
Except ==
    /\ UNCHANGED <<call, width>>
    /\ ipc = "raised"
    /\ IF proc = "gui"
       THEN NoIngest /\ UNCHANGED <<proc, engineVars, queryVars>>
       ELSE ProcessGone
    /\ UNCHANGED <<fs, storeVars, ingested>>

\* The head of the for-loop of add_documents: the end of the list (the
\* function returns, process_documents shows "Successfully processed"), or
\* the next pair, the blank check, the chunker and encoder.encode, which
\* can raise.
IngestFor ==
    /\ UNCHANGED <<call, width>>
    /\ ipc = "for"
    /\ UNCHANGED <<fs, storeVars, ingested>>
    /\ IF bi > Len(batch)
       THEN NoIngest /\ UNCHANGED <<proc, engineVars, queryVars>>
       ELSE IF Strip(batch[bi].text) = <<>> \/ CurChunks = <<>>
       THEN /\ bi' = bi + 1
            /\ UNCHANGED <<proc, engineVars, ipc, batch, chunk_size, txn, encodes, queryVars,
                           pre>>
       ELSE /\ pre' = [docs |-> tblDocuments, embs |-> tblEmbeddings]
            /\ encodes' = encodes + 1
            /\ \E raised \in BOOLEAN :
                 IF raised
                 THEN Raise
                 ELSE /\ ipc' = "store_document"
                      /\ UNCHANGED <<proc, engineVars, batch, bi, chunk_size, txn, queryVars>>

\* self.store.store_document(file_path, chunks) up to its first statement:
\* get_file_hash raises when the file is gone; `with sqlite3.connect`; the
\* DELETE on embeddings, which opens the transaction.
IngestStoreDocument ==
    /\ UNCHANGED <<call, width, encodes>>
    /\ ipc = "store_document"
    /\ UNCHANGED <<fs, storeVars, historyVars>>
    /\ \E raised \in BOOLEAN :
        IF raised \/ fs[Normalize(CurPath)] = 0
        THEN Raise
        ELSE /\ txn' = DeleteEmbeddings(Begin(tblDocuments, tblEmbeddings,
                                              seqDocuments, fs, CurPath))
             /\ ipc' = "delete_documents"
             /\ UNCHANGED <<proc, engineVars, batch, bi, chunk_size, queryVars>>

\* store_document: the DELETE on documents.  A failing statement leaves the
\* with block, which rolls back.
IngestDeleteDocuments ==
    /\ UNCHANGED <<call, width, encodes>>
    /\ ipc = "delete_documents"
    /\ UNCHANGED <<fs, historyVars>>
    /\ \E raised \in BOOLEAN :
        IF raised
        THEN Raise /\ Abort
        ELSE /\ txn' = DeleteDocuments(txn)
             /\ ipc' = "insert_document"
             /\ UNCHANGED <<storeVars, proc, engineVars, batch, bi, chunk_size, queryVars>>

\* store_document: the INSERT of the new documents row.
IngestInsertDocument ==
    /\ UNCHANGED <<call, width, encodes>>
    /\ ipc = "insert_document"
    /\ UNCHANGED <<fs, historyVars>>
    /\ \E raised \in BOOLEAN :
        IF raised
        THEN Raise /\ Abort
        ELSE /\ txn' = InsertDocument(txn, CurChunks)
             /\ ipc' = "commit"
             /\ UNCHANGED <<storeVars, proc, engineVars, batch, bi, chunk_size, queryVars>>

\* store_document: the end of the with block commits the transaction.
IngestCommit ==
    /\ UNCHANGED <<call, width, encodes>>
    /\ ipc = "commit"
    /\ UNCHANGED <<fs, pre>>
    /\ \E raised \in BOOLEAN :
        IF raised
        THEN Raise /\ Abort /\ UNCHANGED ingested
        ELSE /\ tblDocuments' = txn.docs
             /\ tblEmbeddings' = txn.embs
             /\ seqDocuments' = txn.seq
             /\ ingested' = Append(Superseded(ingested, txn.file_path),
                                   [file |-> txn.file_path, content |-> txn.hashed,
                                    prev |-> PrevContent(ingested, txn.file_path),
                                    mark |-> seqEmbeddings,
                                    chunks |-> CurChunks, complete |-> FALSE])
             /\ txn' = NoTxn
             /\ ipc' = "store_embeddings"
             /\ UNCHANGED <<seqEmbeddings, proc, engineVars, batch, bi, chunk_size,
                            queryVars>>

\* self.store.store_embeddings(file_path, list(zip(chunks, embeddings))):
\* fetchone()[0] raises TypeError when the SELECT finds no row.
IngestStoreEmbeddings ==
    /\ UNCHANGED <<call, width, encodes>>
    /\ ipc = "store_embeddings"
    /\ UNCHANGED <<fs, tblDocuments, seqDocuments>>
    /\ \E raised \in BOOLEAN :
        LET rows == EmbeddingsDocRows(tblDocuments, CurPath)
        IN  IF raised \/ rows = <<>>
            THEN Raise /\ UNCHANGED <<tblEmbeddings, seqEmbeddings, ingested, pre>>
            ELSE LET tx == StoreEmbeddings(tblEmbeddings, seqEmbeddings, rows[1].id,
                                           CurChunks, CurEmbeddings)
                 IN  /\ tblEmbeddings' = tx.embs
                     /\ seqEmbeddings' = tx.seq
                     /\ ingested' = [i \in 1..Len(ingested) |->
                                       IF ingested[i].file = Normalize(CurPath)
                                       THEN [ingested[i] EXCEPT !.complete = TRUE]
                                       ELSE ingested[i]]
                     /\ ipc' = "index_add"
                     /\ UNCHANGED <<proc, engineVars, batch, bi, chunk_size, txn, queryVars,
                                    pre>>

\* self.index.add(embeddings.astype('float32')): IndexFlatL2.add asserts
\* that the rows have the width of the index.
IngestIndexAdd ==
    /\ UNCHANGED <<call, width>>
    /\ ipc = "index_add"
    /\ UNCHANGED <<fs, storeVars, encodes, historyVars>>
    /\ IF width # Dimension
       THEN Raise
       ELSE /\ index' = IndexAdd(index, CurEmbeddings)
            /\ ipc' = "extend"
            /\ UNCHANGED <<proc, documents, batch, bi, chunk_size, txn, queryVars>>

\* self.documents.extend(chunks), and on to the next pair.
IngestExtend ==
    /\ UNCHANGED <<call, width>>
    /\ ipc = "extend"
    /\ documents' = Extend(documents, CurChunks)
    /\ bi' = bi + 1
    /\ ipc' = "for"
    /\ UNCHANGED <<fs, storeVars, proc, index, batch, chunk_size, txn, encodes,
                   queryVars, historyVars>>

\* ------------------------------------------------------------------ query
\* [self.documents[i] for i in indices[0]] with labels numbered from 1: a
\* label beyond the list raises IndexError, the label -1 reads the last entry
\* of a list that has one.
ValidLabel(docs, i) ==
    (i = -1 /\ docs # <<>>) \/ (1 <= i /\ i <= Len(docs))

\* [self.documents[i] for i in indices[0]], for labels that are valid.
Gather(docs, idx) ==
    [i \in 1..Len(idx) |-> IF idx[i] = -1 THEN docs[Len(docs)] ELSE docs[idx[i]]]

\* run() of a QueryWorker of the desktop process is over.
WorkerEnds ==
    /\ workers' = (IF proc = "gui" THEN workers - 1 ELSE workers)
    /\ UNCHANGED submit_enabled

\* Mutant of DisableSubmit: handle_query leaves the button enabled.
DisableSubmitSkipped ==
    UNCHANGED submit_enabled

\* handle_query: self.submit_button.setEnabled(False)
DisableSubmit ==
    submit_enabled' = FALSE

\* Mutant of QueryRaise: the except clause of QueryWorker.run emits nothing.
QueryRaiseSilent(kind) ==
    /\ qout' = "none"
    /\ qpc' = "emit"
    /\ WorkerEnds
    /\ UNCHANGED <<proc, engineVars, ingestVars, qdocs, pre>>

\* An exception leaves generate_response.  QueryWorker.run catches it and
\* emits error; main catches it.
QueryRaise(kind) ==
    /\ qout' = kind
    /\ qpc' = "emit"
    /\ WorkerEnds
    /\ UNCHANGED <<proc, engineVars, ingestVars, qdocs, pre>>

\* QueryWindow.handle_query, the slot of the click on the submit button,
\* which an enabled button delivers when the UI thread is free: the button
\* is disabled and a QueryWorker started on a thread of its own.  In main,
\* input() reads the next query once the last one is answered.
QueryStart ==
    /\ UNCHANGED <<call, width>>
    /\ proc # "down"
    /\ ipc = "idle"
    /\ IF proc = "gui"
       THEN /\ submit_enabled
            /\ workers < MaxWorkers
            /\ DisableSubmit
            /\ workers' = workers + 1
       ELSE /\ qpc = "idle"
            /\ UNCHANGED <<submit_enabled, workers>>
    /\ \E q \in Queries : qtext' = q
    /\ qk' = K
    /\ qpc' = "retrieve"
    /\ UNCHANGED <<fs, storeVars, proc, engineVars, ingestVars, qidx, qdocs, qout,
                   qencodes, historyVars>>

\* retrieve: the check of self.documents and encoder.encode([query]).
QueryEncode ==
    /\ UNCHANGED <<call, width>>
    /\ qpc = "retrieve"
    /\ UNCHANGED <<fs, storeVars, qtext, qk, qidx, ingested>>
    /\ IF documents = <<>>
       THEN QueryRaise("ValueError") /\ UNCHANGED qencodes
       ELSE \E raised \in BOOLEAN :
              /\ qencodes' = qencodes + 1
              /\ IF raised
                 THEN QueryRaise("ExternalServiceError")
                 ELSE /\ qpc' = "search"
                      /\ UNCHANGED <<proc, engineVars, ingestVars, qdocs, qout,
                                     submit_enabled, workers, pre>>

\* retrieve: self.index.search(query_embedding, min(k, len(self.documents)));
\* IndexFlatL2.search asserts that the query has the width of the index.
QuerySearch ==
    /\ UNCHANGED <<call, width>>
    /\ qpc = "search"
    /\ UNCHANGED <<fs, storeVars, qtext, qk, qencodes, ingested>>
    /\ IF width # Dimension
       THEN QueryRaise("AssertionError") /\ UNCHANGED qidx
       ELSE /\ qidx' = Search(index, EncodeOne(qtext), Min(qk, Len(documents)))
            /\ qpc' = "gather"
            /\ UNCHANGED <<proc, engineVars, ingestVars, qdocs, qout, submit_enabled,
                           workers, pre>>

\* retrieve: the list of self.documents[i]; then the prompt, generate and
\* finished.emit (the printed response in main).
QueryGather ==
    /\ UNCHANGED <<call, width>>
    /\ qpc = "gather"
    /\ UNCHANGED <<fs, storeVars, qtext, qk, qidx, qencodes, ingested>>
    /\ IF \E i \in 1..Len(qidx) : ~ValidLabel(documents, qidx[i])
       THEN QueryRaise("IndexError")
       ELSE \E raised \in BOOLEAN :
              IF raised
              THEN QueryRaise("ExternalServiceError")
              ELSE /\ qout' = "finished"
                   /\ qdocs' = Gather(documents, qidx)
                   /\ qpc' = "emit"
                   /\ WorkerEnds
                   /\ UNCHANGED <<proc, engineVars, ingestVars, pre>>

\* QueryWindow.update_response, a slot the UI thread runs when it is free.
UpdateResponse ==
    /\ UNCHANGED <<call, width>>
    /\ proc = "gui"
    /\ qpc = "emit"
    /\ ipc = "idle"
    /\ NoQuery
    /\ UNCHANGED <<fs, storeVars, proc, engineVars, ingestVars, historyVars>>

\* main after generate_response: the response is printed and the loop goes
\* on, or the exception is printed and main returns.
MainAfterQuery ==
    /\ UNCHANGED <<call, width>>
    /\ proc = "cli"
    /\ qpc = "emit"
    /\ IF qout = "finished"
       THEN NoQuery /\ UNCHANGED <<proc, engineVars, ingestVars, pre>>
       ELSE ProcessGone
    /\ UNCHANGED <<fs, storeVars, ingested>>

\* ------------------------------------------------------------------- Next
Next ==
    \/ ModifyFile
    \/ Kill
    \/ StartGui
    \/ StartCli
    \/ ProcessDocuments
    \/ Except
    \/ IngestFor
    \/ IngestStoreDocument
    \/ IngestDeleteDocuments
    \/ IngestInsertDocument
    \/ IngestCommit
    \/ IngestStoreEmbeddings
    \/ IngestIndexAdd
    \/ IngestExtend
    \/ QueryStart
    \/ QueryEncode
    \/ QuerySearch
    \/ QueryGather
    \/ UpdateResponse
    \/ MainAfterQuery

Spec ==
    Init /\ [][Next]_vars

\* The desktop process alone, over files that nobody rewrites.
GuiNext ==
    \/ Kill
    \/ StartGui
    \/ ProcessDocuments
    \/ Except
    \/ IngestFor
    \/ IngestStoreDocument
    \/ IngestDeleteDocuments
    \/ IngestInsertDocument
    \/ IngestCommit
    \/ IngestStoreEmbeddings
    \/ IngestIndexAdd
    \/ IngestExtend
    \/ QueryStart
    \/ QueryEncode
    \/ QuerySearch
    \/ QueryGather
    \/ UpdateResponse

\* The threads of the desktop process run on: a query worker runs to its
\* signal, the UI thread runs the handler it is in to its end, and the
\* queued update_response slot is run by the event loop each time the UI
\* thread is free, whatever else the user starts.
GuiSpec ==
    /\ Init
    /\ [][GuiNext]_vars
    /\ WF_vars(QueryEncode \/ QuerySearch \/ QueryGather)
    /\ WF_vars(IngestFor \/ IngestStoreDocument \/ IngestDeleteDocuments
                  \/ IngestInsertDocument \/ IngestCommit \/ IngestStoreEmbeddings
                  \/ IngestIndexAdd \/ IngestExtend \/ Except)
    /\ SF_vars(UpdateResponse)

\* ------------------------------------------------- the classes as a library
\* One call of a method of RAGSystem (rag_system.py, proc "lib") or of the
\* RAGSystem of test.py (proc "test"), on arguments and on an engine that
\* LibInit draws.

\* Largest chunk table and largest k of a retrieve call.
MaxTable == 3
MaxK == 4
\* Longest text (in tokens) and largest chunk_size of an add_documents call.
MaxText == 5
MaxChunkSize == 3

\* Chunk texts of the tables: two of them have the same embedding.
TableTexts ==
    {"g", "dd", "hh"}

\* The chunk tables: an engine holds the embedding of chunk i in row i.
Tables ==
    UNION {[1..n -> TableTexts] : n \in 0..MaxTable}

LibQueries ==
    {"g", "dd"}

\* The texts a caller passes, as tokens: words with whitespace between
\* them, whitespace before, after and in a row, the empty text and the blank
\* ones included.
LibTexts ==
    {t \in UNION {[1..n -> {"a", "bb", " "}] : n \in 0..MaxText} :
        \A i \in 1..(Len(t) - 1) : IsSpace(t[i]) \/ IsSpace(t[i + 1])}

\* The lists of texts a caller of test.py passes: one text, or two.
LibLists ==
    {<<t>> : t \in LibTexts} \cup {<<t, u>> : t \in LibTexts, u \in LibTexts}

NoStore ==
    /\ tblDocuments = <<>>
    /\ tblEmbeddings = <<>>
    /\ seqDocuments = 0
    /\ seqEmbeddings = 0
    /\ pre = NoTables
    /\ ingested = <<>>

\* The widths of the vectors of an encoder: the width of the index, and
\* another one.
Widths ==
    {Dimension, Dimension + 1}

\* retrieve(query, k) on an engine that holds a table; the encoder of
\* rag_system.py is the one the table was made with, or another one.
CallRetrieve ==
    /\ call = NoCall
    /\ proc \in {"lib", "test"}
    /\ width \in (IF proc = "lib" THEN Widths ELSE {Dimension})
    /\ fs = [f \in Files |-> 2]
    /\ NoStore
    /\ documents \in Tables
    /\ index = Encode(documents)
    /\ ipc = "idle"
    /\ batch = <<>>
    /\ bi = 0
    /\ chunk_size = 0
    /\ txn = NoTxn
    /\ encodes = 0
    /\ qpc = (IF proc = "test" THEN "test_retrieve" ELSE "retrieve")
    /\ qtext \in LibQueries
    /\ qk \in 1..MaxK
    /\ qidx = <<>>
    /\ qdocs = <<>>
    /\ qout = "none"
    /\ qencodes = 0
    /\ submit_enabled = TRUE
    /\ workers = 0

\* store_document and store_embeddings as add_documents calls them for one
\* file of the folder, on a store st.
StoreFile(st, files, path) ==
    LET chunks == Split(ProcessPdf(files, path), ChunkSize)
        sd == StoreDocument(st.docs, st.embs, st.seqd, files, path, chunks)
        se == StoreEmbeddings(sd.embs, st.seqe, sd.seq, chunks, Encode(chunks))
    IN  IF files[path] = 0 THEN st
        ELSE [docs |-> sd.docs, embs |-> se.embs, seqd |-> sd.seq, seqe |-> se.seq]

\* The store after the files that existed in the folder were ingested.
StoreOf(files) ==
    StoreFile(StoreFile([docs |-> <<>>, embs |-> <<>>, seqd |-> 0, seqe |-> 0],
                        files, PathA), files, PathB)

\* is_document_processed(path) on a store that holds the files of an earlier
\* ingest; the files may have been rewritten or removed since.
CallIsDocumentProcessed ==
    /\ proc = "lib"
    /\ fs \in [Files -> {0} \cup Contents]
    /\ \E was \in [Files -> {0} \cup Contents] :
          LET st == StoreOf(was)
          IN  /\ tblDocuments = st.docs
              /\ tblEmbeddings = st.embs
              /\ seqDocuments = st.seqd
              /\ seqEmbeddings = st.seqe
    /\ pre = NoTables
    /\ ingested = <<>>
    /\ width = Dimension
    /\ call \in {[state |-> "called", path |-> p, fault |-> f] :
                    p \in RawPaths, f \in Faults}
    /\ documents = <<>>
    /\ index = <<>>
    /\ ipc = "idle"
    /\ batch = <<>>
    /\ bi = 0
    /\ chunk_size = 0
    /\ txn = NoTxn
    /\ encodes = 0
    /\ qpc = "idle"
    /\ qtext = ""
    /\ qk = 0
    /\ qidx = <<>>
    /\ qdocs = <<>>
    /\ qout = "none"
    /\ qencodes = 0
    /\ submit_enabled = TRUE
    /\ workers = 0

\* The call of is_document_processed returns.
IsDocumentProcessedReturn ==
    /\ call.state = "called"
    /\ call' = [state |-> "returned", path |-> call.path, fault |-> call.fault,
                result |-> IsDocumentProcessedCall(tblDocuments, fs, call.path,
                                                   call.fault)]
    /\ UNCHANGED <<fs, storeVars, proc, engineVars, ingestVars, queryVars, width,
                   historyVars>>

\* The lists of (path, text) pairs a caller of rag_system.py passes: one
\* pair, or one pair for each file with at least one blank text.
LibBatches ==
    {<<[path |-> p, text |-> t]>> : p \in RawPaths, t \in LibTexts}
    \cup {<<[path |-> PathA, text |-> t], [path |-> PathB, text |-> u]>> :
             t \in LibTexts, u \in {v \in LibTexts : Words(v) = <<>>}}
    \cup {<<[path |-> PathA, text |-> u], [path |-> PathB, text |-> t]>> :
             t \in LibTexts, u \in {v \in LibTexts : Words(v) = <<>>}}

\* add_documents(pairs, chunk_size) of rag_system.py on a new engine with an
\* open store, which is empty or holds the files from an earlier run; the
\* files exist.
CallAddDocuments ==
    /\ call = NoCall
    /\ proc = "lib"
    /\ width \in Widths
    /\ fs = [f \in Files |-> 2]
    /\ \E was \in {[f \in Files |-> 0], fs} :
          LET st == StoreOf(was)
          IN  /\ tblDocuments = st.docs
              /\ tblEmbeddings = st.embs
              /\ seqDocuments = st.seqd
              /\ seqEmbeddings = st.seqe
    /\ pre = NoTables
    /\ ingested = <<>>
    /\ documents = <<>>
    /\ index = <<>>
    /\ ipc = "for"
    /\ batch \in LibBatches
    /\ bi = 1
    /\ chunk_size \in 1..MaxChunkSize
    /\ txn = NoTxn
    /\ encodes = 0
    /\ qpc = "idle"
    /\ qtext = ""
    /\ qk = 0
    /\ qidx = <<>>
    /\ qdocs = <<>>
    /\ qout = "none"
    /\ qencodes = 0
    /\ submit_enabled = TRUE
    /\ workers = 0

\* add_documents(texts, chunk_size) of test.py on a new engine.
CallTestAddDocuments ==
    /\ call = NoCall
    /\ proc = "test"
    /\ width = Dimension
    /\ fs = [f \in Files |-> 2]
    /\ NoStore
    /\ documents = <<>>
    /\ index = <<>>
    /\ ipc = "test_add"
    /\ batch \in LibLists
    /\ bi = 0
    /\ chunk_size \in 1..MaxChunkSize
    /\ txn = NoTxn
    /\ encodes = 0
    /\ qpc = "idle"
    /\ qtext = ""
    /\ qk = 0
    /\ qidx = <<>>
    /\ qdocs = <<>>
    /\ qout = "none"
    /\ qencodes = 0
    /\ submit_enabled = TRUE
    /\ workers = 0

\* RAGSystem.add_documents of test.py: the chunks of all the texts in one
\* list, encoder.encode, index.add, documents.extend.  encode can raise;
\* index.add raises on the empty array that encode returns for no chunk.
TestAddDocuments ==
    /\ UNCHANGED <<call, width>>
    /\ proc = "test"
    /\ ipc = "test_add"
    /\ UNCHANGED <<fs, storeVars, proc, batch, bi, chunk_size, txn, queryVars, historyVars>>
    /\ encodes' = encodes + 1
    /\ LET chunks == Concat([i \in 1..Len(batch) |-> Split(batch[i], chunk_size)])
       IN  \E raised \in BOOLEAN :
             IF raised \/ chunks = <<>>
             THEN ipc' = "raised" /\ UNCHANGED engineVars
             ELSE /\ index' = IndexAdd(index, Encode(chunks))
                  /\ documents' = Extend(documents, chunks)
                  /\ ipc' = "returned"

\* RAGSystem.retrieve of test.py: encode, index.search with k as passed,
\* the list of self.documents[i].  An exception leaves the method.
TestRetrieve ==
    /\ UNCHANGED <<call, width>>
    /\ proc = "test"
    /\ qpc = "test_retrieve"
    /\ qpc' = "emit"
    /\ qencodes' = qencodes + 1
    /\ UNCHANGED <<fs, storeVars, proc, engineVars, ingestVars, qtext, qk, submit_enabled,
                   workers, historyVars>>
    /\ \E raised \in BOOLEAN :
         IF raised
         THEN /\ qout' = "ExternalServiceError"
              /\ UNCHANGED <<qidx, qdocs>>
         ELSE LET indices == Search(index, EncodeOne(qtext), qk)
              IN  /\ qidx' = indices
                  /\ IF \E i \in 1..Len(indices) : ~ValidLabel(documents, indices[i])
                     THEN qout' = "IndexError" /\ UNCHANGED qdocs
                     ELSE qout' = "finished" /\ qdocs' = Gather(documents, indices)

LibInit ==
    \/ CallRetrieve
    \/ CallAddDocuments
    \/ CallTestAddDocuments
    \/ CallIsDocumentProcessed

LibNext ==
    \/ QueryEncode
    \/ QuerySearch
    \/ QueryGather
    \/ TestRetrieve
    \/ IngestFor
    \/ IngestStoreDocument
    \/ IngestDeleteDocuments
    \/ IngestInsertDocument
    \/ IngestCommit
    \/ IngestStoreEmbeddings
    \/ IngestIndexAdd
    \/ IngestExtend
    \/ TestAddDocuments
    \/ IsDocumentProcessedReturn

LibSpec ==
    LibInit /\ [][LibNext]_vars

\* ----------------------------------------------------------------- claims
\* The embeddings rows of the documents rows of a path, in rowid order.
EmbRowsOfPath(docs, embs, file_path) ==
    SelectSeq(embs, LAMBDA e :
        e.document_id \in {d.id : d \in Range(DocRowsOf(docs, file_path))})

\* The chunk texts of the embeddings rows of one documents row, in rowid order.
EmbTextsOfDoc(embs, doc_id) ==
    LET rows == SelectSeq(embs, LAMBDA e : e.document_id = doc_id)
    IN  [i \in 1..Len(rows) |-> rows[i].chunk_text]

\* The ingests that completed and were not replaced since, oldest first.
CompleteIngests ==
    SelectSeq(ingested, LAMBDA e : e.complete)

\* C1: once add_documents has returned or raised, and once startup has
\* loaded the store, the chunk table and the index have the same number of
\* rows and row i of the index is the embedding of chunk i.
C1_TableMatchesIndex ==
    (proc # "down" /\ ipc \in {"idle", "raised"}) =>
        /\ Len(documents) = Len(index)
        /\ \A i \in 1..Len(documents) : index[i] = EncodeOne(documents[i])

\* C1 witness: add_documents raised at the second file of a batch after it
\* had added the first one to a table that was loaded from the store.
C1_Witness ==
    /\ proc = "gui"
    /\ ipc = "raised"
    /\ bi = 2
    /\ Len(documents) > Len(Split(batch[1].text, ChunkSize))

\* C2: for a file that exists and whose ingest completed, is_cached tells
\* whether the content is still the one whose fingerprint that ingest
\* recorded.
C2_CachedIffUnchanged ==
    \A i \in 1..Len(ingested) :
        (ingested[i].complete /\ fs[ingested[i].file] # 0) =>
            (IsDocumentProcessed(tblDocuments, fs, ingested[i].file)
                <=> fs[ingested[i].file] = ingested[i].content)

\* C2 witness: two ingested files, one unchanged and reported cached, one
\* rewritten since and reported not cached.
C2_Witness ==
    \E i, j \in 1..Len(ingested) :
        /\ ingested[i].complete
        /\ ingested[j].complete
        /\ fs[ingested[i].file] = ingested[i].content
        /\ IsDocumentProcessed(tblDocuments, fs, ingested[i].file)
        /\ fs[ingested[j].file] \notin {0, ingested[j].content}
        /\ ~IsDocumentProcessed(tblDocuments, fs, ingested[j].file)

\* C3: re-ingesting a file whose content is unchanged since its last
\* successful ingest is a no-op: once its re-ingest is persisted, the chunk
\* sequence a load yields is the one it yielded before.  Stated for the
\* moment store_embeddings has returned for a file whose row held, before,
\* the same fingerprint and the same chunks with all their embeddings.
C3_ReingestUnchangedIsNoop ==
    (ipc = "index_add" /\ DocRowsOf(tblDocuments, CurPath) # <<>>) =>
        LET f == Normalize(CurPath)
            was == DocRowsOf(pre.docs, f)
        IN  (/\ was # <<>>
             /\ was[1].file_hash = DocRowsOf(tblDocuments, f)[1].file_hash
             /\ was[1].chunks = CurChunks
             /\ EmbTextsOfDoc(pre.embs, was[1].id) = CurChunks)
            => GetAllEmbeddings(tblEmbeddings).chunks = GetAllEmbeddings(pre.embs).chunks

\* C4: whenever no store_embeddings call is pending, the embeddings rows of
\* every documents row carry, in rowid order, the chunks of that row.
C4_EmbeddingsMatchChunks ==
    ipc # "store_embeddings" =>
        \A i \in 1..Len(tblDocuments) :
            EmbTextsOfDoc(tblEmbeddings, tblDocuments[i].id) = tblDocuments[i].chunks

\* C5: whenever no store_embeddings call is pending, a path that is_cached
\* reports as cached is one for which store_document and store_embeddings
\* have both succeeded.
C5_CachedOnlyAfterBoth ==
    ipc # "store_embeddings" =>
        \A f \in Files :
            IsDocumentProcessed(tblDocuments, fs, f) =>
                \E i \in 1..Len(ingested) : ingested[i].file = f /\ ingested[i].complete

\* C6: every label index.search returned to a query is a position of the
\* chunk table when the query reads it: no query ends in IndexError.
C6_QueryLabelsValid ==
    qout # "IndexError"

\* C7: at most one documents row per normalized path; no embeddings row of
\* a replaced documents row is left; and after a completed ingest the row of
\* the path carries the fingerprint and the chunks of that ingest and its
\* embeddings rows are exactly those chunks.
C7_OneCurrentRowPerPath ==
    /\ \A f \in Files : Len(DocRowsOf(tblDocuments, f)) <= 1
    /\ \A i \in 1..Len(tblEmbeddings) :
          \E j \in 1..Len(tblDocuments) : tblDocuments[j].id = tblEmbeddings[i].document_id
    /\ \A i \in 1..Len(ingested) :
          ingested[i].complete =>
              LET rows == DocRowsOf(tblDocuments, ingested[i].file)
                  embs == EmbRowsOfPath(tblDocuments, tblEmbeddings, ingested[i].file)
              IN  /\ Len(rows) = 1
                  /\ rows[1].file_hash = FileHash(ingested[i].content)
                  /\ rows[1].chunks = ingested[i].chunks
                  /\ [k \in 1..Len(embs) |-> embs[k].chunk_text] = ingested[i].chunks
                  /\ \A k \in 1..Len(embs) : embs[k].id > ingested[i].mark

\* C7 witness: a file was ingested, rewritten and ingested again, and the
\* store holds embeddings.
C7_Witness ==
    \E i \in 1..Len(ingested) :
        /\ ingested[i].complete
        /\ ingested[i].prev \notin {0, ingested[i].content}
        /\ ingested[i].mark > 0
        /\ Len(tblEmbeddings) > Len(ingested[i].chunks)

\* C8: what startup loads into a fresh engine is the concatenation of the
\* chunks of the ingested files, in ingest order, in chunk order within a
\* file.
C8_LoadIsConcatenation ==
    [][(proc = "down" /\ proc' = "gui") =>
          documents' = Concat([i \in 1..Len(CompleteIngests) |-> CompleteIngests[i].chunks])]_vars

\* C8 witness: a desktop process holds exactly the chunks of two files, the
\* second one ingested before the first and again after it: only a load
\* from the store gives this table.
C8_Witness ==
    /\ proc = "gui"
    /\ ipc = "idle"
    /\ Len(ingested) = 2
    /\ ingested[1].complete
    /\ ingested[2].complete
    /\ ingested[2].prev # 0
    /\ Len(ingested[1].chunks) > 1
    /\ documents = ingested[1].chunks \o ingested[2].chunks

\* C9: a failure at one file of a batch does not end the batch: an
\* exception leaves add_documents only when no file is left after the
\* failing one.
C9_BatchContinuesAfterFailure ==
    ipc = "raised" => bi >= Len(batch)

\* C10: when the replacement of a document that is in the store with its
\* embeddings fails, the exception reaches the caller and the store still
\* holds the documents row and the embeddings rows the path had before.
C10_PriorRowsKeptOnFailure ==
    (/\ ipc = "raised"
     /\ EmbRowsOfPath(pre.docs, pre.embs, Normalize(CurPath)) # <<>>) =>
        /\ DocRowsOf(tblDocuments, Normalize(CurPath))
              = DocRowsOf(pre.docs, Normalize(CurPath))
        /\ EmbRowsOfPath(tblDocuments, tblEmbeddings, Normalize(CurPath))
              = EmbRowsOfPath(pre.docs, pre.embs, Normalize(CurPath))

\* C11: a retrieve call on a non-empty chunk table that the embedding
\* service does not fail returns min(k, n) chunk texts, each the entry of the
\* table at a position of the table, and no error.
C11_ReturnsMinKN ==
    (qpc = "emit" /\ documents # <<>> /\ qout # "ExternalServiceError") =>
        /\ qout = "finished"
        /\ Len(qdocs) = Min(qk, Len(documents))
        /\ Len(qidx) = Len(qdocs)
        /\ \A i \in 1..Len(qidx) :
              /\ 1 <= qidx[i]
              /\ qidx[i] <= Len(documents)
              /\ qdocs[i] = documents[qidx[i]]

\* C12: a retrieve call on an empty chunk table ends with the empty-index
\* error (ValueError "No documents in the index") and with no other outcome:
\* neither the embedding service nor the index has been called.
C12_EmptyTableError ==
    (qpc = "emit" /\ documents = <<>>) =>
        /\ qout = "ValueError"
        /\ qidx = <<>>
        /\ index = <<>>

\* C13: in a running process that is not in the middle of an ingest (so
\* whenever a query can be asked, the first one included), every chunk the
\* store holds is in the chunk table, with its vector in the same row of the
\* index.
C13_StoreLoadedAtStartup ==
    (proc # "down" /\ ipc = "idle") =>
        \A i \in 1..Len(tblEmbeddings) :
            \E j \in 1..Len(documents) :
                /\ documents[j] = tblEmbeddings[i].chunk_text
                /\ j <= Len(index)
                /\ index[j] = FromBuffer(tblEmbeddings[i].embedding)

\* C14: when add_documents calls store_embeddings, right after
\* store_document has written the documents row of the file, the lookup of
\* store_embeddings finds that row, whatever form the path was passed in.
C14_EmbeddingsFindDocument ==
    ipc = "store_embeddings" =>
        LET rows == EmbeddingsDocRows(tblDocuments, CurPath)
        IN  /\ rows # <<>>
            /\ rows[1].file_path = Normalize(CurPath)

\* C15: the step that removes a file from disk leaves both tables as they
\* are, and a documents row or an embeddings row leaves the store only in
\* the store_document call for the path the row belongs to; so the rows of
\* a removed file stay, and get_all_embeddings keeps returning them.
C15_RowsOutliveFile ==
    [][/\ (\E f \in Files : fs[f] # 0 /\ fs'[f] = 0) =>
              (tblDocuments' = tblDocuments /\ tblEmbeddings' = tblEmbeddings)
       /\ \A d \in Range(tblDocuments) :
              d \notin Range(tblDocuments') =>
                  (ipc = "commit" /\ d.file_path = Normalize(CurPath))
       /\ \A e \in Range(tblEmbeddings) :
              e \notin Range(tblEmbeddings') =>
                  /\ ipc = "commit"
                  /\ \E d \in Range(tblDocuments) :
                        d.id = e.document_id /\ d.file_path = Normalize(CurPath)]_vars

\* C15 witness: a.pdf is gone from disk, the store holds its row and its
\* embeddings, another file was ingested after it, and a desktop process
\* started since holds the chunks of both.
C15_Witness ==
    /\ fs[PathA] = 0
    /\ proc = "gui"
    /\ ipc = "idle"
    /\ Len(EmbRowsOfPath(tblDocuments, tblEmbeddings, PathA)) > 1
    /\ \E i \in 1..Len(ingested) :
          ingested[i].file = PathB /\ ingested[i].complete /\ ingested[i].mark > 0
    /\ documents = GetAllEmbeddings(tblEmbeddings).chunks
    /\ Len(documents) > Len(EmbRowsOfPath(tblDocuments, tblEmbeddings, PathA))

\* C16: a call of is_document_processed returns and does not raise; it
\* returns false when the file does not exist, when the file cannot be read
\* and when the lookup in the store fails; and it leaves both tables as
\* they were.
C16_IsCachedNeverRaises ==
    [][(call.state = "called" /\ call'.state = "returned") =>
          /\ ~call'.result.raised
          /\ (fs[Normalize(call.path)] = 0 \/ call.fault # "none")
                => ~call'.result.value
          /\ tblDocuments' = tblDocuments
          /\ tblEmbeddings' = tblEmbeddings]_vars

\* C16 witness: the lookup failed for a file that the store holds with the
\* fingerprint it has on disk, and the call returned false.
C16_Witness ==
    /\ call.state = "returned"
    /\ call.fault = "lookup"
    /\ IsDocumentProcessed(tblDocuments, fs, call.path)
    /\ ~call.result.raised
    /\ ~call.result.value

\* The distance of row r of the index to the vector of the query.
QueryDist(r) ==
    Dist(index[r], EncodeOne(qtext))

ChunksOf(chunks, words) ==
    /\ \A i \in 1..Len(chunks) : chunks[i] # ""
    /\ words = <<>> => chunks = <<>>
    /\ Join(chunks) = Join(words)

\* C18: what the chunker makes of a text, for every chunk_size, is the
\* words of the text: in add_documents of rag_system.py, the chunks of the
\* file the loop is at and the chunk table once the list is done (nothing
\* for a blank text); in add_documents of test.py, the chunk table once the
\* call has returned, for the words of all the texts in order.
C18_ChunksRebuildWords ==
    /\ (proc = "lib" /\ ipc \in {"store_document", "delete_documents", "insert_document",
                                  "commit", "store_embeddings", "index_add", "extend"})
          => ChunksOf(CurChunks, Words(batch[bi].text))
    /\ (proc = "lib" /\ ipc = "for" /\ bi > Len(batch) /\ batch # <<>>)
          => ChunksOf(documents, Concat([i \in 1..Len(batch) |-> Words(batch[i].text)]))
    /\ (proc = "test" /\ ipc = "returned")
          => ChunksOf(documents, Concat([i \in 1..Len(batch) |-> Words(batch[i])]))
    /\ (proc = "test" /\ ipc = "raised")
          => ChunksOf(Concat([i \in 1..Len(batch) |-> Split(batch[i], chunk_size)]),
                      Concat([i \in 1..Len(batch) |-> Words(batch[i])]))

\* C18 witness: test.py has chunked two texts, the first one with
\* whitespace before its first word and three words, into fewer chunks than
\* there are words and more than two.
C18_Witness ==
    /\ proc = "test"
    /\ ipc = "returned"
    /\ Len(batch) = 2
    /\ batch[1] # <<>>
    /\ batch[1][1] = " "
    /\ Len(Words(batch[1])) = 2
    /\ Len(Words(batch[2])) = 3
    /\ Len(documents) > 2
    /\ Len(documents) < 5

\* C19: in the desktop process, a query worker that has ended has emitted
\* one signal, finished or error, and one that runs has emitted none; the
\* submit button is enabled again only by update_response showing that
\* outcome; and every query that was started gets there.
C19_OneOutcomeShown ==
    /\ [](proc = "gui" => (qpc = "emit" <=> qout # "none"))
    /\ [][(proc = "gui" /\ proc' = "gui" /\ qpc # "idle" /\ qpc' = "idle") =>
             (qpc = "emit" /\ qout \in {"finished", "ValueError",
                                        "ExternalServiceError", "IndexError"})]_vars
    /\ ((proc = "gui" /\ qpc # "idle") ~> (qpc = "idle"))

\* C19 witness: a query on an empty chunk table has ended with the error
\* signal while process_documents keeps the UI thread busy.
C19_Witness ==
    /\ proc = "gui"
    /\ qpc = "emit"
    /\ qout = "ValueError"
    /\ ipc = "store_embeddings"

\* C20: in the desktop process, which starts with a load of the store,
\* when add_documents has gone through its list and returns, the chunk table
\* is the sequence of chunk texts get_all_embeddings yields.
C20_TableIsStoreImage ==
    (proc = "gui" /\ ipc = "for" /\ bi > Len(batch)) =>
        documents = GetAllEmbeddings(tblEmbeddings).chunks

\* C21: in every state of the store every embeddings row belongs to a
\* documents row, and for every path the three statements of store_document
\* show in the store in one step or not at all, whatever ends the call (its
\* return, an exception, the death of the process): a step that removes an
\* embeddings row or a documents row of the path, or adds a documents row
\* for it, is the commit of store_document for that path, removes all its
\* old rows from both tables and leaves the one new row.
C21_ReplacementIsAtomic ==
    /\ [](\A e \in Range(tblEmbeddings) :
            \E d \in Range(tblDocuments) : d.id = e.document_id)
    /\ [][\A f \in Files :
            LET old == Range(DocRowsOf(tblDocuments, f))
                oldIds == {d.id : d \in old}
                oldEmbs == {e \in Range(tblEmbeddings) : e.document_id \in oldIds}
                new == DocRowsOf(tblDocuments', f)
            IN  (\/ oldEmbs \ Range(tblEmbeddings') # {}
                 \/ old \ Range(tblDocuments') # {}
                 \/ Range(new) \ old # {})
                => /\ ipc = "commit"
                   /\ txn.file_path = f
                   /\ oldEmbs \cap Range(tblEmbeddings') = {}
                   /\ old \cap Range(tblDocuments') = {}
                   /\ Len(new) = 1
                   /\ new[1].id = seqDocuments + 1
                   /\ seqDocuments' = seqDocuments + 1]_vars

\* C21 witness: store_document is about to commit the replacement of a file
\* that has a documents row and several embeddings rows: its transaction
\* holds the new row only, the store still holds the old rows.
C21_Witness ==
    /\ ipc = "commit"
    /\ txn.open
    /\ Len(DocRowsOf(tblDocuments, txn.file_path)) = 1
    /\ Len(EmbRowsOfPath(tblDocuments, tblEmbeddings, txn.file_path)) > 1
    /\ Len(DocRowsOf(txn.docs, txn.file_path)) = 1
    /\ DocRowsOf(txn.docs, txn.file_path)[1].id = seqDocuments + 1
    /\ EmbRowsOfPath(tblDocuments, txn.embs, txn.file_path) = <<>>
    /\ Len(txn.embs) < Len(tblEmbeddings)
    /\ txn.seq = seqDocuments + 1

\* a is the beginning of b.
IsPrefix(a, b) ==
    Len(a) <= Len(b) /\ SubSeq(b, 1, Len(a)) = a

\* C22: as long as the process lives, every step (the steps of an ingest,
\* the load at startup, the steps of a query) leaves the chunk table and
\* the rows of the index as the beginning of what they are after it.
C22_TablesAppendOnly ==
    [][proc' # "down" =>
          /\ IsPrefix(documents, documents')
          /\ IsPrefix(index, index')]_vars

\* C22 witness: a desktop process that loaded chunks from the store has
\* added the chunks of the first file of a batch behind them.
C22_Witness ==
    /\ proc = "gui"
    /\ ipc = "for"
    /\ bi = 2
    /\ LET chunks == Split(batch[1].text, chunk_size)
           n == Len(documents) - Len(chunks)
       IN  /\ n > 0
           /\ SubSeq(documents, n + 1, Len(documents)) = chunks
           /\ SubSeq(documents, 1, n) # chunks
           /\ Len(index) = Len(documents)

RECURSIVE RunningCount(_)
\* The running count of a chunk made of the words ws: the length of each
\* word plus one.
RunningCount(ws) ==
    IF ws = <<>> THEN 0 ELSE Len(Head(ws)) + 1 + RunningCount(Tail(ws))

RECURSIVE ClosedAtSize(_, _, _)
\* chunks cuts words into runs: each chunk is the join of the next run of
\* words, a run has at least one word, the count of a run without its last
\* word is below size, every run but the last has a count of size or more,
\* and the last run takes the words that remain.
ClosedAtSize(words, chunks, size) ==
    IF chunks = <<>> THEN words = <<>>
    ELSE \E n \in 1..Len(words) :
            /\ Join(SubSeq(words, 1, n)) = Head(chunks)
            /\ RunningCount(SubSeq(words, 1, n - 1)) < size
            /\ Len(chunks) > 1 => RunningCount(SubSeq(words, 1, n)) >= size
            /\ Len(chunks) = 1 => n = Len(words)
            /\ ClosedAtSize(SubSeq(words, n + 1, Len(words)), Tail(chunks), size)

\* C23: the chunks add_documents makes of a text (rag_system.py: the chunks
\* it hands to the store and the chunk table it leaves on return; test.py:
\* the chunk table it leaves, text by text) close exactly where the running
\* count reaches chunk_size, and the last chunk is the non-empty remainder.
C23_ChunkClosesAtSize ==
    /\ (proc = "lib" /\ ipc \in {"store_document", "delete_documents", "insert_document",
                                  "commit", "store_embeddings", "index_add", "extend"})
          => ClosedAtSize(Words(batch[bi].text), CurChunks, chunk_size)
    /\ (proc = "lib" /\ ipc = "for" /\ bi > Len(batch) /\ batch # <<>>)
          => ClosedAtSize(Concat([i \in 1..Len(batch) |-> Words(batch[i].text)]),
                          documents, chunk_size)
    /\ (proc = "lib" /\ ipc \in {"store_embeddings", "index_add", "extend"})
          => ClosedAtSize(Words(batch[bi].text),
                          tblDocuments[Len(tblDocuments)].chunks, chunk_size)
    /\ (proc = "test" /\ ipc = "returned")
          => \E cut \in 0..Len(documents) :
                /\ ClosedAtSize(Words(batch[1]), SubSeq(documents, 1, cut), chunk_size)
                /\ IF Len(batch) = 1 THEN cut = Len(documents)
                   ELSE ClosedAtSize(Words(batch[2]),
                                     SubSeq(documents, cut + 1, Len(documents)),
                                     chunk_size)

\* C23 witness: with chunk_size 3 the text "a a a" came out as "a a", closed
\* at a count of 4 after a count of 2, and the remainder "a" with a count
\* of 2.
C23_Witness ==
    /\ proc = "lib"
    /\ ipc = "for"
    /\ bi > Len(batch)
    /\ chunk_size = 3
    /\ Len(batch) = 1
    /\ Words(batch[1].text) = <<"a", "a", "a">>
    /\ documents = <<"a a", "a">>

\* A text that is empty or whitespace only.
Blank(text) ==
    Words(text) = <<>>

\* The members of a list of texts that are not blank, in order.
NonBlank(texts) ==
    SelectSeq(texts, LAMBDA t : ~Blank(t))

\* C24, add_documents of rag_system.py: at a pair with a blank text the loop
\* goes on to the next pair, with no call of the encoder and the store, the
\* chunk table and the index as they were.
C24_LibSkipsBlank ==
    [][(proc = "lib" /\ ipc = "for" /\ bi <= Len(batch) /\ Blank(batch[bi].text)) =>
          /\ ipc' = "for"
          /\ bi' = bi + 1
          /\ batch' = batch
          /\ UNCHANGED <<storeVars, engineVars, encodes>>]_vars

\* C24, add_documents of test.py: a list of blank texts only makes the call
\* return with no call of the encoder and the engine as it was; blank texts
\* among others leave the engine with what the others alone give.
C24_TestSkipsBlank ==
    [][(proc = "test" /\ ipc = "test_add" /\ \E i \in 1..Len(batch) : Blank(batch[i])) =>
          IF NonBlank(batch) = <<>>
          THEN /\ ipc' = "returned"
               /\ encodes' = encodes
               /\ UNCHANGED engineVars
          ELSE ipc' = "returned" =>
                 LET chunks == Concat([i \in 1..Len(NonBlank(batch)) |->
                                          Split(NonBlank(batch)[i], chunk_size)])
                 IN  /\ documents' = documents \o chunks
                     /\ index' = index \o Encode(chunks)]_vars

\* C24: a pair whose text is blank is skipped by add_documents: no call of
\* the encoder, no row written or deleted, chunk table and index unchanged;
\* an existing record of its path stays and the other pairs are processed.
C24_BlankIsSkipped ==
    C24_LibSkipsBlank /\ C24_TestSkipsBlank

\* C25: vectors of another width than the index are rejected before anything
\* changes: no embeddings row holds one, no row of the index is one, a call
\* of add_documents whose encoder returns them leaves the engine as it was,
\* with as many chunks as rows, and a query whose encoder returns one ends
\* with the error of the width check.
C25_MismatchRejectedFirst ==
    /\ \A i \in 1..Len(tblEmbeddings) :
          Len(FromBuffer(tblEmbeddings[i].embedding)) = Dimension
    /\ \A i \in 1..Len(index) : Len(index[i]) = Dimension
    /\ (proc = "lib" /\ width # Dimension /\ batch # <<>>) =>
          /\ documents = <<>>
          /\ index = <<>>
          /\ ipc # "extend"
    /\ (proc = "lib" /\ width # Dimension /\ qpc = "emit"
          /\ qout \notin {"ValueError", "ExternalServiceError"}) =>
          /\ qout = "AssertionError"
          /\ qdocs = <<>>

\* C26: a call of add_documents that gets through its list has called the
\* encoder once, however many files the list holds, and a query that is
\* answered has called it once.
C26_OneEncodePerCall ==
    /\ (ipc = "for" /\ bi > Len(batch) /\ batch # <<>>) => encodes = 1
    /\ ipc = "returned" => encodes = 1
    /\ (qpc = "emit" /\ qout = "finished") => qencodes = 1

\* C27: when is_document_processed answers true for a path, the chunks the
\* store holds for it (the chunks column of its row, and the embeddings rows
\* once store_embeddings has run) are the chunks of the content the file has,
\* which is the content whose fingerprint the row holds.
C27_HitVouchesForChunks ==
    \A f \in Files :
        IsDocumentProcessed(tblDocuments, fs, f) =>
            LET row == DocRowsOf(tblDocuments, f)[1]
                made == Split(ProcessPdf(fs, f), ChunkSize)
            IN  /\ row.chunks = made
                /\ EmbTextsOfDoc(tblEmbeddings, row.id) \in {<<>>, made}

\* C28: in the desktop process at most one QueryWorker runs, and none while
\* the submit button is enabled; a worker is started only by a step that
\* finds the button enabled with no worker running and disables it; and the
\* button is enabled again only by update_response, after the worker has
\* emitted its signal.
C28_OneWorkerAtATime ==
    /\ [](proc = "gui" => (workers <= 1 /\ (submit_enabled => workers = 0)))
    /\ [][(proc = "gui" /\ workers' > workers) =>
             (submit_enabled /\ ~submit_enabled' /\ workers = 0 /\ qpc = "idle")]_vars
    /\ [][(proc = "gui" /\ proc' = "gui" /\ ~submit_enabled /\ submit_enabled') =>
             (qpc = "emit" /\ qout # "none" /\ workers = 0 /\ qpc' = "idle")]_vars

\* C28 witness: a worker is between its search and its result, the button is
\* disabled, and the UI thread, free to take clicks when the worker started,
\* has gone on to ingest a batch.
C28_Witness ==
    /\ proc = "gui"
    /\ workers = 1
    /\ ~submit_enabled
    /\ qpc = "gather"
    /\ ipc = "index_add"
====
